---- MODULE Spec2Model ----
(***************************************************************************)
(* Appointment assignment workflow of Program_Final__LuxuryBath.py:        *)
(* main_workflow runs three time windows; each window is matched by        *)
(* assign_to_closest_rep (first pass, double-booking adjustment, second    *)
(* pass), then update_sales_reps_zip moves the assigned reps, then         *)
(* modify_sales_reps may edit the roster, then the results are collected.  *)
(*                                                                         *)
(* Encoding.  Times are seconds (a datetime is the number of seconds after *)
(* the earliest appointment).  ZIP codes are numbers (Python sorts the ZIP      *)
(* strings; equal-length digit strings sort as the numbers do).  A dict is *)
(* a sequence of entries in insertion order.  Python's None is None (-1)   *)
(* for a drive time and NoRep for closest_rep.                             *)
(***************************************************************************)
EXTENDS Integers, Sequences, FiniteSets, TLC

\* ---- bounds of the model ------------------------------------------------
MaxAppts ==
    2
NumZips ==
    2
NumProducts ==
    2
MaxDriveTime ==
    1
MaxReps ==
    2
MaxEdits ==
    1
\* reps of the crowded roster (SpecCrowd)
CrowdReps ==
    3
\* appointments of the busy first window (SpecBusy)
BusyAppts ==
    3

\* ---- program constants --------------------------------------------------
\* timedelta(hours=2), timedelta(hours=2, minutes=1), ... in seconds
TwoHours ==
    7200
TwoHoursOneMinute ==
    7260
FiveHours ==
    18000
FiveHoursOneMinute ==
    18060
\* duration["value"] / 60
SecondsPerMinute ==
    60
\* float('inf'): larger than every drive time
Inf ==
    1000000
\* Python's None as a drive time
None ==
    -1
\* Python's None as closest_rep
NoRep ==
    "<None>"

\* ---- input domains ------------------------------------------------------
Zips ==
    1..NumZips
Products ==
    1..NumProducts
\* rep names the operator can type; "" is what parse_input_to_sales_reps
\* makes of a line that starts with a comma
Names ==
    {"", "A", "B", "C"}
\* half a minute after the end of window 1 ("%m/%d/%Y %H:%M:%S" carries
\* seconds)
TwoHoursThirtySeconds ==
    TwoHours + SecondsPerMinute \div 2
\* sample appointment times: start of window 1, its inclusive end, half a
\* minute later, the start of window 2, the start of window 3
ApptTimes ==
    {0, TwoHours, TwoHoursThirtySeconds, TwoHoursOneMinute, FiveHoursOneMinute}
\* scopes a rep can be entered with
Scopes ==
    {{1}, Products}
\* scopes the operator enters for a rep added between windows
EditScopes ==
    {Products}
\* what the distance matrix can answer, in seconds
OracleSeconds ==
    {SecondsPerMinute * k : k \in 0..MaxDriveTime}
DriveTimes ==
    0..MaxDriveTime
\* unordered ZIP pairs
PairSets ==
    {{a, b} : a \in Zips, b \in Zips}

VARIABLES
    appointments,            \* list of appointment dicts (main_workflow argument)
    sales_reps,              \* roster dict, in insertion order
    pc,                      \* where the run is
    window_number,           \* index into time_windows
    appointment_assignments, \* assign_to_closest_rep: list of assignments
    rep_appointments,        \* assign_to_closest_rep: rep -> appointments given
    drive_time_cache,        \* assign_to_closest_rep: sorted ZIP pair -> minutes
    unassigned_appointments, \* assign_to_closest_rep: displaced appointments
    i,                       \* position of the appointment loop
    j,                       \* position of the rep loop
    closest_rep,
    min_drive_time,
    assignments,             \* run_workflow: what process_time_window returned
    all_results,             \* main_workflow: accumulated rows
    edits,                   \* number of roster edits made so far
    \* ---- history (not read by the program) ----
    last_call,               \* the get_drive_time call just made, else <<>>
    hist_win,                \* unordered pair -> latest result in this window
    hist_run,                \* unordered pair -> first known result in this run
    oracle_failed,           \* a lookup of this window's matching came back unknown
    unknown_for,             \* <<custnumber, rep>> whose lookup came back unknown in this window
    scan,                    \* results of the rep loop for the current appointment
    last_match,              \* the appointment decision just made, else <<>>
    pre_roster,              \* the roster when the current window started
    left_loc                 \* rep -> location the last closed window (or an edit) left

vars ==
    <<appointments, sales_reps, pc, window_number, appointment_assignments,
      rep_appointments, drive_time_cache, unassigned_appointments, i, j,
      closest_rep, min_drive_time, assignments, all_results, edits,
      last_call, hist_win, hist_run, oracle_failed, unknown_for, scan,
      last_match, pre_roster, left_loc>>

\* ---- appointment dates ---------------------------------------------------
\* A datetime is the number of seconds since midnight of the day.  The text
\* "MM/DD/YYYY HH:MM:SS" is the numeral made of a leading 1 for the date
\* part and the six digits HHMMSS, so a text never equals a datetime.

\* parsed_date.strftime("%m/%d/%Y %H:%M:%S")
Strftime(t) ==
    1000000 + (t \div (SecondsPerMinute * SecondsPerMinute)) * 10000
            + ((t % (SecondsPerMinute * SecondsPerMinute)) \div SecondsPerMinute) * 100
            + (t % SecondsPerMinute)

\* isinstance(appointment["apptdate"], str)
IsStr(apptdate) ==
    apptdate >= 1000000

\* variant of Strptime: the seconds are not read
StrptimeDroppingSeconds(text) ==
    LET digits == text - 1000000
    IN (digits \div 10000) * SecondsPerMinute * SecondsPerMinute
       + ((digits % 10000) \div 100) * SecondsPerMinute

\* datetime.strptime(appointment["apptdate"], "%m/%d/%Y %H:%M:%S")
Strptime(text) ==
    LET digits == text - 1000000
    IN (digits \div 10000) * SecondsPerMinute * SecondsPerMinute
       + ((digits % 10000) \div 100) * SecondsPerMinute
       + (digits % 100)

\* the in-place loop of main_workflow (lines 515-517) and of
\* assign_to_closest_rep (lines 136-137): every apptdate that is a text is
\* replaced by the datetime it reads as
WithDatetimes(appts) ==
    [k \in DOMAIN appts |->
        [appts[k] EXCEPT !.apptdate = IF IsStr(@) THEN Strptime(@) ELSE @]]

\* marks a pair that was never looked up (history only)
Unseen ==
    None - 1


\* ---- small helpers ------------------------------------------------------
Range(s) ==
    {s[k] : k \in DOMAIN s}

\* list.remove(x): drops the first element equal to x
RemoveFirst(s, x) ==
    LET hits == {k \in DOMAIN s : s[k] = x}
        first == CHOOSE k \in hits : \A m \in hits : k <= m
    IN IF hits = {} THEN s
       ELSE SubSeq(s, 1, first - 1) \o SubSeq(s, first + 1, Len(s))

\* the names of a roster, and the position of a name in it
RepNames(roster) ==
    {roster[k].name : k \in DOMAIN roster}

RepIndex(roster, name) ==
    CHOOSE k \in DOMAIN roster : roster[k].name = name

\* Python truthiness of closest_rep: None and "" are false
Truthy(rep) ==
    rep # NoRep /\ rep # ""

\* ---- main_workflow: the time windows ------------------------------------
earliest_time ==
    CHOOSE t \in {appointments[k].apptdate : k \in DOMAIN appointments} :
        \A k \in DOMAIN appointments : t <= appointments[k].apptdate

last_time ==
    CHOOSE t \in {appointments[k].apptdate : k \in DOMAIN appointments} :
        \A k \in DOMAIN appointments : t >= appointments[k].apptdate

\* variant of time_windows: window 2 starts where window 1 ends
time_windows_touching ==
    << [window_number |-> 1, start |-> earliest_time,
        end |-> earliest_time + TwoHours, allow_modify_reps |-> TRUE],
       [window_number |-> 2, start |-> earliest_time + TwoHours,
        end |-> earliest_time + FiveHours, allow_modify_reps |-> TRUE],
       [window_number |-> 3, start |-> earliest_time + FiveHoursOneMinute,
        end |-> last_time, allow_modify_reps |-> FALSE] >>

\* variant of time_windows: the last window is flagged for a roster edit
\* too
time_windows_all_editable ==
    << [window_number |-> 1, start |-> earliest_time,
        end |-> earliest_time + TwoHours, allow_modify_reps |-> TRUE],
       [window_number |-> 2, start |-> earliest_time + TwoHoursOneMinute,
        end |-> earliest_time + FiveHours, allow_modify_reps |-> TRUE],
       [window_number |-> 3, start |-> earliest_time + FiveHoursOneMinute,
        end |-> last_time, allow_modify_reps |-> TRUE] >>

time_windows ==
    << [window_number |-> 1, start |-> earliest_time,
        end |-> earliest_time + TwoHours, allow_modify_reps |-> TRUE],
       [window_number |-> 2, start |-> earliest_time + TwoHoursOneMinute,
        end |-> earliest_time + FiveHours, allow_modify_reps |-> TRUE],
       [window_number |-> 3, start |-> earliest_time + FiveHoursOneMinute,
        end |-> last_time, allow_modify_reps |-> FALSE] >>

\* ---- assign_to_closest_rep: pure parts ----------------------------------
\* variant of InWindow: the end of the window is left out
InWindowHalfOpen(appt, time_window_start, time_window_end) ==
    time_window_start <= appt.apptdate /\ appt.apptdate < time_window_end

InWindow(appt, time_window_start, time_window_end) ==
    time_window_start <= appt.apptdate /\ appt.apptdate <= time_window_end

filtered_appointments ==
    LET w == time_windows[window_number]
    IN SelectSeq(appointments, LAMBDA appt : InWindow(appt, w.start, w.end))

\* variant of CacheKey: the pair is not sorted
CacheKeyUnsorted(zip1, zip2) ==
    <<zip1, zip2>>

\* tuple(sorted([zip1, zip2]))
CacheKey(zip1, zip2) ==
    IF zip1 <= zip2 THEN <<zip1, zip2>> ELSE <<zip2, zip1>>

\* variant of GetDriveTime: a failed lookup is stored like a successful one
GetDriveTimeCachingFailure(zip1, zip2) ==
    LET cache_key == CacheKey(zip1, zip2)
    IN IF cache_key \in DOMAIN drive_time_cache
       THEN {[drive_time |-> drive_time_cache[cache_key],
              cache |-> drive_time_cache, called |-> FALSE]}
       ELSE {[drive_time |-> s \div SecondsPerMinute,
              cache |-> (cache_key :> (s \div SecondsPerMinute)) @@ drive_time_cache,
              called |-> TRUE] : s \in OracleSeconds}
            \cup {[drive_time |-> None,
                   cache |-> (cache_key :> None) @@ drive_time_cache,
                   called |-> TRUE]}

\* get_drive_time: the outcomes that return (the call that raises is the
\* action OracleRaises).  A hit returns the cached value; a miss calls the
\* distance matrix, which answers OK with a duration (stored) or not OK.
GetDriveTime(zip1, zip2) ==
    LET cache_key == CacheKey(zip1, zip2)
    IN IF cache_key \in DOMAIN drive_time_cache
       THEN {[drive_time |-> drive_time_cache[cache_key],
              cache |-> drive_time_cache, called |-> FALSE]}
       ELSE {[drive_time |-> s \div SecondsPerMinute,
              cache |-> (cache_key :> (s \div SecondsPerMinute)) @@ drive_time_cache,
              called |-> TRUE] : s \in OracleSeconds}
            \cup {[drive_time |-> None, cache |-> drive_time_cache, called |-> TRUE]}

\* the list the appointment loop of a pass runs over
ApptList(pass) ==
    IF pass = "pass1" THEN filtered_appointments ELSE unassigned_appointments

\* variant of Eligible: the second pass also considers reps that already
\* hold an appointment
EligibleIgnoringBooked(pass, details, product_id) ==
    product_id \in details.scope

\* variant of Eligible: the first pass does not look at the scope
EligibleAnyScope(pass, details, product_id) ==
    IF pass = "pass1"
    THEN TRUE
    ELSE product_id \in details.scope /\ rep_appointments[details.name] = <<>>

\* variant of Eligible: the second pass takes a rep with one appointment
\* for free
EligibleWithOneBooking(pass, details, product_id) ==
    IF pass = "pass1"
    THEN product_id \in details.scope
    ELSE product_id \in details.scope /\ Len(rep_appointments[details.name]) <= 1

\* variant of Eligible: the second pass finds no rep free
EligibleFirstPassOnly(pass, details, product_id) ==
    pass = "pass1" /\ product_id \in details.scope

\* the condition under which a rep is looked up for an appointment
Eligible(pass, details, product_id) ==
    IF pass = "pass1"
    THEN product_id \in details.scope
    ELSE product_id \in details.scope /\ rep_appointments[details.name] = <<>>

\* variant of RepZip: the location of the first rep of the roster is used
\* for every rep
RepZipOfFirstRep(details) ==
    sales_reps[1].curr_zip

\* rep_zip = details["curr_zip"]
RepZip(details) ==
    details.curr_zip

\* variant of Closer: an equal drive time also replaces the rep found so far
CloserOrEqual(drive_time, min_so_far) ==
    drive_time # None /\ drive_time <= min_so_far

\* variant of Closer: an unknown drive time is compared like a number
CloserEvenUnknown(drive_time, min_so_far) ==
    drive_time < min_so_far

\* drive_time is not None and drive_time < min_drive_time
Closer(drive_time, min_so_far) ==
    drive_time # None /\ drive_time < min_so_far

\* variant of SortByDriveTime: the candidates are left in list order
Unsorted(s) ==
    s

\* sorted(..., key=lambda x: x["drive_time"]): stable
RECURSIVE SortByDriveTime(_)
SortByDriveTime(s) ==
    IF s = <<>> THEN <<>>
    ELSE LET rest == SortByDriveTime(SubSeq(s, 1, Len(s) - 1))
             x == s[Len(s)]
             n == Cardinality({k \in DOMAIN rest : rest[k].drive_time <= x.drive_time})
         IN SubSeq(rest, 1, n) \o <<x>> \o SubSeq(rest, n + 1, Len(rest))

RECURSIVE RemoveAll(_, _)
RemoveAll(s, extras) ==
    IF extras = <<>> THEN s
    ELSE RemoveAll(RemoveFirst(s, Head(extras)), Tail(extras))

\* Step 2, for the reps from position k on: keep each double-booked rep's
\* cheapest assignment, move the others to unassigned_appointments
RECURSIVE AdjustFrom(_, _, _)
AdjustFrom(k, assigns, unassigned) ==
    IF k > Len(sales_reps) THEN [assigns |-> assigns, unassigned |-> unassigned]
    ELSE LET rep == sales_reps[k].name
             sorted_appts == SortByDriveTime(
                 SelectSeq(assigns, LAMBDA a : a.assigned_to = rep))
             extras == Tail(sorted_appts)
         IN IF Len(rep_appointments[rep]) > 1
            THEN AdjustFrom(k + 1, RemoveAll(assigns, extras),
                     unassigned \o [m \in DOMAIN extras |-> extras[m].appointment])
            ELSE AdjustFrom(k + 1, assigns, unassigned)

\* ---- update_sales_reps_zip ----------------------------------------------
\* sorted(assignments, key=apptdate)[-1]: the latest appointment, the last
\* of the latest in list order
LastAppt(appts) ==
    LET latest == {k \in DOMAIN appts :
                      \A m \in DOMAIN appts : appts[m].apptdate <= appts[k].apptdate}
        k == CHOOSE x \in latest : \A m \in latest : m <= x
    IN appts[k]

\* variant of UpdatedRoster: every rep is moved to the last assignment's ZIP
UpdatedRosterMoveAll(appointment_assignments_, roster) ==
    [k \in DOMAIN roster |->
        IF appointment_assignments_ = <<>> THEN roster[k]
        ELSE [roster[k] EXCEPT !.curr_zip =
                 appointment_assignments_[Len(appointment_assignments_)].appointment.Zip]]

\* variant of UpdatedRoster: the update is lost
UpdatedRosterStale(appointment_assignments_, roster) ==
    roster

\* variant of UpdatedRoster: the moved rep's entry is rebuilt without its
\* scope
UpdatedRosterDroppingScope(appointment_assignments_, roster) ==
    [k \in DOMAIN roster |->
        LET mine == SelectSeq(appointment_assignments_,
                        LAMBDA a : a.assigned_to = roster[k].name)
        IN IF mine = <<>> THEN roster[k]
           ELSE [name |-> roster[k].name, scope |-> {},
                 curr_zip |-> LastAppt([m \in DOMAIN mine |-> mine[m].appointment]).Zip]]

UpdatedRoster(appointment_assignments_, roster) ==
    [k \in DOMAIN roster |->
        LET mine == SelectSeq(appointment_assignments_,
                        LAMBDA a : a.assigned_to = roster[k].name)
        IN IF mine = <<>> THEN roster[k]
           ELSE [roster[k] EXCEPT !.curr_zip =
                    LastAppt([m \in DOMAIN mine |-> mine[m].appointment]).Zip]]


\* ---- the inputs ---------------------------------------------------------
\* appointment lists as load_appointments_from_excel builds them: one dict
\* per row, customer numbers unique (the row number here)
\* (times count from the earliest appointment, so some row has time 0)
AppointmentLists ==
    {rows \in UNION {[1..n -> ApptTimes \X Zips \X Products] : n \in 1..MaxAppts} :
        \E k \in DOMAIN rows : rows[k][1] = 0}

MakeAppointments(rows) ==
    [k \in DOMAIN rows |->
        [custnumber |-> k, apptdate |-> Strftime(rows[k][1]), Zip |-> rows[k][2],
         productid |-> rows[k][3]]]

\* rosters as parse_input_to_sales_reps builds them: a dict, so names are
\* distinct; each entry has curr_zip and scope
\* the names of the roster typed into the form, in the order typed
InitialNames ==
    <<"A", "B", "C", "D">>

RepEntries ==
    [name : Names, curr_zip : Zips, scope : Scopes]

Rosters ==
    {r \in UNION {[1..n -> RepEntries] : n \in 1..MaxReps} :
        \A k \in DOMAIN r : r[k].name = InitialNames[k]}

NoHistory ==
    [p \in PairSets |-> Unseen]

Locations(roster) ==
    [n \in Names |->
        IF n \in RepNames(roster) THEN roster[RepIndex(roster, n)].curr_zip ELSE None]

Init ==
    /\ appointments \in {MakeAppointments(rows) : rows \in AppointmentLists}
    /\ sales_reps \in Rosters
    /\ pc = "prepare"
    /\ window_number = 1
    /\ appointment_assignments = <<>>
    /\ rep_appointments = <<>>
    /\ drive_time_cache = <<>>
    /\ unassigned_appointments = <<>>
    /\ i = 1
    /\ j = 1
    /\ closest_rep = NoRep
    /\ min_drive_time = Inf
    /\ assignments = <<>>
    /\ all_results = <<>>
    /\ edits = 0
    /\ last_call = <<>>
    /\ hist_win = NoHistory
    /\ hist_run = NoHistory
    /\ oracle_failed = FALSE
    /\ unknown_for = {}
    /\ scan = <<>>
    /\ last_match = <<>>
    /\ pre_roster = sales_reps
    /\ left_loc = Locations(sales_reps)

\* a day whose appointments all start together: every appointment is in
\* window 1, which is where double bookings pile up
BusyAppointmentLists ==
    {rows \in [1..BusyAppts -> ApptTimes \X Zips \X Products] :
        \A k \in DOMAIN rows : rows[k][1] = 0}

InitBusy ==
    /\ appointments \in {MakeAppointments(rows) : rows \in BusyAppointmentLists}
    /\ sales_reps \in Rosters
    /\ pc = "prepare"
    /\ window_number = 1
    /\ appointment_assignments = <<>>
    /\ rep_appointments = <<>>
    /\ drive_time_cache = <<>>
    /\ unassigned_appointments = <<>>
    /\ i = 1
    /\ j = 1
    /\ closest_rep = NoRep
    /\ min_drive_time = Inf
    /\ assignments = <<>>
    /\ all_results = <<>>
    /\ edits = 0
    /\ last_call = <<>>
    /\ hist_win = NoHistory
    /\ hist_run = NoHistory
    /\ oracle_failed = FALSE
    /\ unknown_for = {}
    /\ scan = <<>>
    /\ last_match = <<>>
    /\ pre_roster = sales_reps
    /\ left_loc = Locations(sales_reps)

\* a day with more reps than appointments, all of them able to serve every
\* product: after a double booking several reps are still idle
CrowdRosters ==
    {[k \in 1..CrowdReps |->
         [name |-> InitialNames[k], curr_zip |-> z[k], scope |-> Products]] :
        z \in [1..CrowdReps -> Zips]}

CrowdAppointmentLists ==
    {rows \in [1..MaxAppts -> ApptTimes \X Zips \X Products] :
        \A k \in DOMAIN rows : rows[k][1] = 0}

InitCrowd ==
    /\ appointments \in {MakeAppointments(rows) : rows \in CrowdAppointmentLists}
    /\ sales_reps \in CrowdRosters
    /\ pc = "prepare"
    /\ window_number = 1
    /\ appointment_assignments = <<>>
    /\ rep_appointments = <<>>
    /\ drive_time_cache = <<>>
    /\ unassigned_appointments = <<>>
    /\ i = 1
    /\ j = 1
    /\ closest_rep = NoRep
    /\ min_drive_time = Inf
    /\ assignments = <<>>
    /\ all_results = <<>>
    /\ edits = 0
    /\ last_call = <<>>
    /\ hist_win = NoHistory
    /\ hist_run = NoHistory
    /\ oracle_failed = FALSE
    /\ unknown_for = {}
    /\ scan = <<>>
    /\ last_match = <<>>
    /\ pre_roster = sales_reps
    /\ left_loc = Locations(sales_reps)

\* the days checked for termination: whether the run ends does not depend
\* on where the appointments are, so they are all at the first ZIP
LiveAppointmentLists ==
    {rows \in AppointmentLists : \A k \in DOMAIN rows : rows[k][2] = 1}

InitLive ==
    /\ appointments \in {MakeAppointments(rows) : rows \in LiveAppointmentLists}
    /\ sales_reps \in Rosters
    /\ pc = "prepare"
    /\ window_number = 1
    /\ appointment_assignments = <<>>
    /\ rep_appointments = <<>>
    /\ drive_time_cache = <<>>
    /\ unassigned_appointments = <<>>
    /\ i = 1
    /\ j = 1
    /\ closest_rep = NoRep
    /\ min_drive_time = Inf
    /\ assignments = <<>>
    /\ all_results = <<>>
    /\ edits = 0
    /\ last_call = <<>>
    /\ hist_win = NoHistory
    /\ hist_run = NoHistory
    /\ oracle_failed = FALSE
    /\ unknown_for = {}
    /\ scan = <<>>
    /\ last_match = <<>>
    /\ pre_roster = sales_reps
    /\ left_loc = Locations(sales_reps)

\* main_workflow lines 514-517: the dates the loader left as text are parsed
\* in place, before the windows are laid out
PrepareDates ==
    /\ pc = "prepare"
    /\ appointments' = WithDatetimes(appointments)
    /\ pc' = "start"
    /\ UNCHANGED <<sales_reps, window_number, appointment_assignments,
                   rep_appointments, drive_time_cache,
                   unassigned_appointments, i, j, closest_rep,
                   min_drive_time, assignments, all_results, edits,
                   last_call, hist_win, hist_run, oracle_failed, unknown_for,
                   scan, last_match, pre_roster, left_loc>>

\* ---- assign_to_closest_rep ----------------------------------------------
\* lines 106-144: a fresh assignment list, rep_appointments and cache
StartWindow ==
    /\ pc = "start"
    /\ pc' = "pass1"
    /\ appointment_assignments' = <<>>
    /\ rep_appointments' = [n \in RepNames(sales_reps) |-> <<>>]
    /\ drive_time_cache' = <<>>
    /\ unassigned_appointments' = <<>>
    /\ i' = 1
    /\ j' = 1
    /\ closest_rep' = NoRep
    /\ min_drive_time' = Inf
    /\ hist_win' = NoHistory
    /\ scan' = <<>>
    /\ pre_roster' = sales_reps
    /\ last_call' = <<>>
    /\ last_match' = <<>>
    /\ oracle_failed' = FALSE
    /\ unknown_for' = {}
    /\ appointments' = WithDatetimes(appointments)
    /\ UNCHANGED <<sales_reps, window_number, assignments,
                   all_results, edits, hist_run, left_loc>>

\* one turn of the rep loop (lines 154-161 and 196-203)
RepStep(pass) ==
    /\ pc = pass
    /\ i <= Len(ApptList(pass))
    /\ j <= Len(sales_reps)
    /\ LET appointment == ApptList(pass)[i]
           details == sales_reps[j]
           pair == {appointment.Zip, RepZip(details)}
       IN IF Eligible(pass, details, appointment.productid)
          THEN \E o \in GetDriveTime(appointment.Zip, RepZip(details)) :
                 /\ drive_time_cache' = o.cache
                 /\ IF Closer(o.drive_time, min_drive_time)
                    THEN min_drive_time' = o.drive_time /\ closest_rep' = details.name
                    ELSE UNCHANGED <<min_drive_time, closest_rep>>
                 /\ last_call' = << [window |-> window_number, pass |-> pass,
                                     custnumber |-> appointment.custnumber,
                                     rep |-> details.name,
                                     zip1 |-> appointment.Zip, zip2 |-> RepZip(details),
                                     called |-> o.called, drive_time |-> o.drive_time,
                                     before_win |-> hist_win[pair],
                                     before_run |-> hist_run[pair]] >>
                 /\ hist_win' = [hist_win EXCEPT ![pair] = o.drive_time]
                 /\ oracle_failed' = (oracle_failed \/ o.drive_time = None)
                 /\ unknown_for' = IF o.drive_time = None
                                   THEN unknown_for \cup {<<appointment.custnumber, details.name>>}
                                   ELSE unknown_for
                 /\ hist_run' = [hist_run EXCEPT ![pair] =
                                    IF @ \in DriveTimes THEN @ ELSE o.drive_time]
                 /\ scan' = Append(scan, [rep |-> details.name, looked_up |-> TRUE,
                                          drive_time |-> o.drive_time])
          ELSE /\ scan' = Append(scan, [rep |-> details.name, looked_up |-> FALSE,
                                        drive_time |-> None])
               /\ last_call' = <<>>
               /\ UNCHANGED <<drive_time_cache, min_drive_time, closest_rep,
                              hist_win, hist_run, oracle_failed,
                              unknown_for>>
    /\ j' = j + 1
    /\ last_match' = <<>>
    /\ UNCHANGED <<appointments, sales_reps, pc, window_number,
                   appointment_assignments, rep_appointments,
                   unassigned_appointments, i, assignments, all_results,
                   edits, pre_roster, left_loc>>

\* lines 124-127: the distance-matrix call raises, or answers OK with an
\* element that has no duration (KeyError); nothing below main_workflow's
\* except clause catches it, so the run ends without results
OracleRaises(pass) ==
    /\ pc = pass
    /\ i <= Len(ApptList(pass))
    /\ j <= Len(sales_reps)
    /\ LET appointment == ApptList(pass)[i]
           details == sales_reps[j]
       IN /\ Eligible(pass, details, appointment.productid)
          /\ CacheKey(appointment.Zip, RepZip(details)) \notin DOMAIN drive_time_cache
          /\ last_call' = << [window |-> window_number, pass |-> pass,
                              custnumber |-> appointment.custnumber,
                              rep |-> details.name,
                              zip1 |-> appointment.Zip, zip2 |-> RepZip(details),
                              called |-> TRUE, drive_time |-> None,
                              before_win |-> hist_win[{appointment.Zip, RepZip(details)}],
                              before_run |-> hist_run[{appointment.Zip, RepZip(details)}]] >>
    /\ pc' = "aborted"
    /\ last_match' = <<>>
    /\ oracle_failed' = TRUE
    /\ unknown_for' = unknown_for
    /\ UNCHANGED <<appointments, sales_reps, window_number,
                   appointment_assignments, rep_appointments,
                   drive_time_cache, unassigned_appointments, i, j,
                   closest_rep, min_drive_time, assignments, all_results,
                   edits, hist_win, hist_run, scan, pre_roster, left_loc>>

\* the end of the rep loop for one appointment (lines 163-172 and 205-213)
Decide(pass) ==
    /\ pc = pass
    /\ i <= Len(ApptList(pass))
    /\ j > Len(sales_reps)
    /\ LET appointment == ApptList(pass)[i]
       IN /\ IF Truthy(closest_rep)
             THEN /\ rep_appointments' =
                         [rep_appointments EXCEPT ![closest_rep] = Append(@, appointment)]
                  /\ appointment_assignments' =
                         Append(appointment_assignments,
                                [appointment |-> appointment, assigned_to |-> closest_rep,
                                 drive_time |-> min_drive_time])
             ELSE UNCHANGED <<rep_appointments, appointment_assignments>>
          /\ last_match' = << [window |-> window_number, pass |-> pass,
                               appointment |-> appointment, scan |-> scan,
                               closest_rep |-> closest_rep,
                               min_drive_time |-> min_drive_time,
                               assigned |-> Truthy(closest_rep)] >>
    /\ i' = i + 1
    /\ j' = 1
    /\ closest_rep' = NoRep
    /\ min_drive_time' = Inf
    /\ scan' = <<>>
    /\ last_call' = <<>>
    /\ oracle_failed' = oracle_failed
    /\ unknown_for' = unknown_for
    /\ UNCHANGED <<appointments, sales_reps, pc, window_number,
                   drive_time_cache, unassigned_appointments, assignments,
                   all_results, edits, hist_win, hist_run, pre_roster,
                   left_loc>>

\* variant of AdjustDoubleBooking: Step 2 leaves the whole list sorted by
\* drive time
AdjustDoubleBookingSorting ==
    /\ pc = "pass1"
    /\ i > Len(filtered_appointments)
    /\ LET r == AdjustFrom(1, appointment_assignments, <<>>)
       IN /\ appointment_assignments' = SortByDriveTime(r.assigns)
          /\ unassigned_appointments' = r.unassigned
    /\ pc' = "pass2"
    /\ i' = 1
    /\ j' = 1
    /\ last_call' = <<>>
    /\ last_match' = <<>>
    /\ oracle_failed' = oracle_failed
    /\ unknown_for' = unknown_for
    /\ UNCHANGED <<appointments, sales_reps, window_number, rep_appointments,
                   drive_time_cache, closest_rep, min_drive_time,
                   assignments, all_results, edits, hist_win, hist_run, scan,
                   pre_roster, left_loc>>

\* Step 2 (lines 174-186), once the first pass is over
AdjustDoubleBooking ==
    /\ pc = "pass1"
    /\ i > Len(filtered_appointments)
    /\ LET r == AdjustFrom(1, appointment_assignments, <<>>)
       IN /\ appointment_assignments' = r.assigns
          /\ unassigned_appointments' = r.unassigned
    /\ pc' = "pass2"
    /\ i' = 1
    /\ j' = 1
    /\ last_call' = <<>>
    /\ last_match' = <<>>
    /\ oracle_failed' = oracle_failed
    /\ unknown_for' = unknown_for
    /\ UNCHANGED <<appointments, sales_reps, window_number, rep_appointments,
                   drive_time_cache, closest_rep, min_drive_time,
                   assignments, all_results, edits, hist_win, hist_run, scan,
                   pre_roster, left_loc>>

\* variant of ReturnAssignments: run_workflow goes on to collect the
\* results without calling update_sales_reps_zip
ReturnAssignmentsSkippingUpdate ==
    /\ pc = "pass2"
    /\ i > Len(unassigned_appointments)
    /\ assignments' = appointment_assignments
    /\ pc' = "collect"
    /\ appointment_assignments' = <<>>
    /\ rep_appointments' = <<>>
    /\ drive_time_cache' = <<>>
    /\ unassigned_appointments' = <<>>
    /\ i' = 1
    /\ j' = 1
    /\ hist_win' = NoHistory
    /\ last_call' = <<>>
    /\ last_match' = <<>>
    /\ oracle_failed' = FALSE
    /\ unknown_for' = {}
    /\ UNCHANGED <<appointments, sales_reps, window_number, closest_rep,
                   min_drive_time, all_results, edits, hist_run, scan,
                   pre_roster, left_loc>>

\* line 215, process_time_window, run_workflow line 427: the list is
\* returned and the locals of assign_to_closest_rep, the cache among them,
\* are gone
ReturnAssignments ==
    /\ pc = "pass2"
    /\ i > Len(unassigned_appointments)
    /\ assignments' = appointment_assignments
    /\ pc' = "update"
    /\ appointment_assignments' = <<>>
    /\ rep_appointments' = <<>>
    /\ drive_time_cache' = <<>>
    /\ unassigned_appointments' = <<>>
    /\ i' = 1
    /\ j' = 1
    /\ hist_win' = NoHistory
    /\ last_call' = <<>>
    /\ last_match' = <<>>
    /\ oracle_failed' = FALSE
    /\ unknown_for' = {}
    /\ UNCHANGED <<appointments, sales_reps, window_number, closest_rep,
                   min_drive_time, all_results, edits, hist_run, scan,
                   pre_roster, left_loc>>

\* ---- run_workflow -------------------------------------------------------
\* what the closed window leaves as each rep's location, read off the
\* returned assignments (history only)
LeftBy(assigns, before) ==
    [n \in Names |->
        LET mine == {k \in DOMAIN assigns : assigns[k].assigned_to = n}
            latest == CHOOSE k \in mine :
                          \A m \in mine :
                              \/ assigns[m].appointment.apptdate < assigns[k].appointment.apptdate
                              \/ /\ assigns[m].appointment.apptdate = assigns[k].appointment.apptdate
                                 /\ m <= k
        IN IF mine = {} THEN before[n] ELSE assigns[latest].appointment.Zip]

\* line 430: update_sales_reps_zip on the returned assignments
UpdateSalesRepsZip ==
    /\ pc = "update"
    /\ sales_reps' = UpdatedRoster(assignments, sales_reps)
    /\ left_loc' = LeftBy(assignments, left_loc)
    /\ pc' = IF time_windows[window_number].allow_modify_reps THEN "modify" ELSE "collect"
    /\ last_call' = <<>>
    /\ last_match' = <<>>
    /\ oracle_failed' = oracle_failed
    /\ unknown_for' = unknown_for
    /\ UNCHANGED <<appointments, window_number, appointment_assignments,
                   rep_appointments, drive_time_cache,
                   unassigned_appointments, i, j, closest_rep,
                   min_drive_time, assignments, all_results, edits, hist_win,
                   hist_run, scan, pre_roster>>

\* ---- modify_sales_reps --------------------------------------------------
\* sales_reps[name] = details: a known name keeps its place, a new one is
\* appended
WithRep(roster, name, details) ==
    IF name \in RepNames(roster)
    THEN [roster EXCEPT ![RepIndex(roster, name)] = details]
    ELSE Append(roster, details)

\* variant of WithoutRep: the entry is not deleted
WithoutRepKeeping(roster, name) ==
    roster

\* del sales_reps[rep]
WithoutRep(roster, name) ==
    SelectSeq(roster, LAMBDA d : d.name # name)

\* lines 349-364: the operator answers "add" and enters one rep
EditAdd(name, zip_code, scope) ==
    /\ pc = "modify"
    /\ edits < MaxEdits
    /\ name \in RepNames(sales_reps) \/ Len(sales_reps) < MaxReps
    /\ sales_reps' = WithRep(sales_reps, name,
                             [name |-> name, curr_zip |-> zip_code, scope |-> scope])
    /\ left_loc' = [left_loc EXCEPT ![name] = zip_code]
    /\ edits' = edits + 1
    /\ last_call' = <<>>
    /\ last_match' = <<>>
    /\ oracle_failed' = oracle_failed
    /\ unknown_for' = unknown_for
    /\ UNCHANGED <<appointments, pc, window_number, appointment_assignments,
                   rep_appointments, drive_time_cache,
                   unassigned_appointments, i, j, closest_rep,
                   min_drive_time, assignments, all_results, hist_win,
                   hist_run, scan, pre_roster>>

\* lines 369-384: the operator answers "remove" and names one rep
EditRemove(name) ==
    /\ pc = "modify"
    /\ edits < MaxEdits
    /\ name \in RepNames(sales_reps)
    /\ sales_reps' = WithoutRep(sales_reps, name)
    /\ left_loc' = [left_loc EXCEPT ![name] = None]
    /\ edits' = edits + 1
    /\ last_call' = <<>>
    /\ last_match' = <<>>
    /\ oracle_failed' = oracle_failed
    /\ unknown_for' = unknown_for
    /\ UNCHANGED <<appointments, pc, window_number, appointment_assignments,
                   rep_appointments, drive_time_cache,
                   unassigned_appointments, i, j, closest_rep,
                   min_drive_time, assignments, all_results, hist_win,
                   hist_run, scan, pre_roster>>

\* variant of EditNo: the answer "no" does not leave the loop
EditNoKeepsAsking ==
    /\ pc = "modify"
    /\ UNCHANGED vars

\* lines 335-336: the operator answers "no"
EditNo ==
    /\ pc = "modify"
    /\ pc' = "collect"
    /\ last_call' = <<>>
    /\ last_match' = <<>>
    /\ oracle_failed' = oracle_failed
    /\ unknown_for' = unknown_for
    /\ UNCHANGED <<appointments, sales_reps, window_number,
                   appointment_assignments, rep_appointments,
                   drive_time_cache, unassigned_appointments, i, j,
                   closest_rep, min_drive_time, assignments, all_results,
                   edits, hist_win, hist_run, scan, pre_roster, left_loc>>

\* ---- collecting the results ---------------------------------------------
\* variant of ResultRows: an assignment with drive time 0 gets no row
ResultRowsSkippingZero(assigns) ==
    LET kept == SelectSeq(assigns, LAMBDA a : a.drive_time # 0)
    IN [k \in DOMAIN kept |->
           [kind |-> "row", window |-> 0,
            custnumber |-> kept[k].appointment.custnumber,
            apptdate |-> kept[k].appointment.apptdate,
            product |-> kept[k].appointment.productid,
            rep |-> kept[k].assigned_to,
            drive_time |-> kept[k].drive_time]]

\* run_workflow lines 438-461: one row per returned assignment
ResultRows(assigns) ==
    [k \in DOMAIN assigns |->
        [kind |-> "row", window |-> 0,
         custnumber |-> assigns[k].appointment.custnumber,
         apptdate |-> assigns[k].appointment.apptdate,
         product |-> assigns[k].appointment.productid,
         rep |-> assigns[k].assigned_to,
         drive_time |-> assigns[k].drive_time]]

\* variant of WindowGroup: the title row follows the rows
WindowGroupTitleLast(number, assigns) ==
    ResultRows(assigns)
    \o << [kind |-> "title", window |-> number, custnumber |-> 0, apptdate |-> 0,
           product |-> 0, rep |-> "", drive_time |-> None] >>
    \o << [kind |-> "blank", window |-> 0, custnumber |-> 0, apptdate |-> 0,
           product |-> 0, rep |-> "", drive_time |-> None] >>

\* main_workflow lines 537-544: title row, the rows, blank row
WindowGroup(number, assigns) ==
    << [kind |-> "title", window |-> number, custnumber |-> 0, apptdate |-> 0,
        product |-> 0, rep |-> "", drive_time |-> None] >>
    \o ResultRows(assigns)
    \o << [kind |-> "blank", window |-> 0, custnumber |-> 0, apptdate |-> 0,
           product |-> 0, rep |-> "", drive_time |-> None] >>

CollectResults ==
    /\ pc = "collect"
    /\ all_results' = all_results \o WindowGroup(window_number, assignments)
    /\ IF window_number < Len(time_windows)
       THEN window_number' = window_number + 1 /\ pc' = "start"
       ELSE window_number' = window_number /\ pc' = "done"
    /\ last_call' = <<>>
    /\ last_match' = <<>>
    /\ oracle_failed' = oracle_failed
    /\ unknown_for' = unknown_for
    /\ UNCHANGED <<appointments, sales_reps, appointment_assignments,
                   rep_appointments, drive_time_cache,
                   unassigned_appointments, i, j, closest_rep,
                   min_drive_time, assignments, edits, hist_win, hist_run,
                   scan, pre_roster, left_loc>>

Next ==
    \/ PrepareDates
    \/ StartWindow
    \/ RepStep("pass1")
    \/ RepStep("pass2")
    \/ OracleRaises("pass1")
    \/ OracleRaises("pass2")
    \/ Decide("pass1")
    \/ Decide("pass2")
    \/ AdjustDoubleBooking
    \/ ReturnAssignments
    \/ UpdateSalesRepsZip
    \/ \E name \in Names, zip_code \in Zips, scope \in EditScopes :
           EditAdd(name, zip_code, scope)
    \/ \E name \in Names : EditRemove(name)
    \/ EditNo
    \/ CollectResults

Spec ==
    Init /\ [][Next]_vars

\* the same program on the busy days
SpecBusy ==
    InitBusy /\ [][Next]_vars

\* the same program on the crowded rosters
SpecCrowd ==
    InitCrowd /\ [][Next]_vars

\* ---- the run as a process -----------------------------------------------
\* the steps the interpreter takes by itself: every statement of
\* main_workflow, run_workflow and assign_to_closest_rep is followed by the
\* next one (a distance-matrix call that returns is one of them)
ProgramStep ==
    \/ PrepareDates
    \/ StartWindow
    \/ RepStep("pass1")
    \/ RepStep("pass2")
    \/ Decide("pass1")
    \/ Decide("pass2")
    \/ AdjustDoubleBooking
    \/ ReturnAssignments
    \/ UpdateSalesRepsZip
    \/ CollectResults

\* the program keeps running, and the operator at some time answers "no"
\* to the question of modify_sales_reps
LiveSpec ==
    InitLive /\ [][Next]_vars /\ WF_vars(ProgramStep) /\ WF_vars(EditNo)


\* ======================================================================
\* Properties
\* ======================================================================

\* the matching of the current window is over: both passes are done, or the
\* list has been returned to run_workflow
WindowCompleted ==
    \/ pc = "pass2" /\ i > Len(unassigned_appointments)
    \/ pc \in {"update", "modify", "collect"}

\* the window's final Assignment list
FinalList ==
    IF pc = "pass2" THEN appointment_assignments ELSE assignments

\* the scope a rep had when the current window was matched
ScopeAtMatching(name) ==
    pre_roster[RepIndex(pre_roster, name)].scope

\* C1: in the final Assignment list of a completed window no representative
\* and no appointment occurs more than once.
C1_Injectivity ==
    WindowCompleted =>
        \A a, b \in DOMAIN FinalList :
            a # b => /\ FinalList[a].assigned_to # FinalList[b].assigned_to
                     /\ FinalList[a].appointment.custnumber
                            # FinalList[b].appointment.custnumber

\* a window in which a double booking was resolved and the displaced
\* appointment went to another rep in the second pass
C1_Witness ==
    /\ pc = "pass2"
    /\ i > Len(unassigned_appointments)
    /\ unassigned_appointments # <<>>
    /\ Len(appointment_assignments) = 2

\* C2: every final Assignment, of the first or of the second pass, names a
\* representative whose scope at matching time holds the appointment's
\* product.
C2_Eligibility ==
    WindowCompleted =>
        \A a \in DOMAIN FinalList :
            /\ FinalList[a].assigned_to \in RepNames(pre_roster)
            /\ FinalList[a].appointment.productid
                   \in ScopeAtMatching(FinalList[a].assigned_to)

\* the second pass has just assigned a displaced appointment, in a window
\* whose roster also holds a rep that may not serve some product
C2_Witness ==
    /\ pc = "pass2"
    /\ last_match # <<>>
    /\ last_match[1].pass = "pass2"
    /\ last_match[1].assigned
    /\ \E k \in DOMAIN sales_reps : sales_reps[k].scope # Products

\* the positions of a rep's assignments in a list
AssignmentsOf(assigns, name) ==
    {k \in DOMAIN assigns : assigns[k].assigned_to = name}

\* C3: the step that closes a window (update_sales_reps_zip on the final
\* Assignments) leaves every assigned rep at the location of its latest
\* appointment of the window, and every other rep as it was.
C3_CarryOver ==
    [][pc = "update" =>
        /\ Len(sales_reps') = Len(sales_reps)
        /\ \A k \in DOMAIN sales_reps :
              LET name == sales_reps[k].name
                  mine == AssignmentsOf(assignments, name)
              IN /\ sales_reps'[k].name = name
                 /\ sales_reps'[k].scope = sales_reps[k].scope
                 /\ mine = {} => sales_reps'[k].curr_zip = sales_reps[k].curr_zip
                 /\ mine # {} =>
                       \E a \in mine :
                          /\ sales_reps'[k].curr_zip = assignments[a].appointment.Zip
                          /\ \A b \in mine :
                                assignments[b].appointment.apptdate
                                    <= assignments[a].appointment.apptdate]_vars

\* a window has just closed: one rep was moved by its appointment, another
\* rep had no assignment and stayed
C3_Witness ==
    /\ pc = "modify"
    /\ edits = 0
    /\ Len(sales_reps) = 2
    /\ \E k \in DOMAIN sales_reps :
          /\ AssignmentsOf(assignments, sales_reps[k].name) # {}
          /\ sales_reps[k].curr_zip # pre_roster[k].curr_zip
    /\ \E k \in DOMAIN sales_reps :
          AssignmentsOf(assignments, sales_reps[k].name) = {}

\* C4 (as claimed): a second cost call for a pair, in either order, makes no
\* oracle call and returns what the first call returned.
C4_SecondCallNeverAsksOracle ==
    \A c \in Range(last_call) :
        c.before_win # Unseen => ~c.called /\ c.drive_time = c.before_win

\* C4 (amended): once a lookup of an unordered pair has returned a known
\* value during a window's matching, every later lookup of that pair in the
\* same matching, in either order, makes no oracle call and returns that
\* value.
C4_KnownCostIsReused ==
    \A c \in Range(last_call) :
        c.before_win \in DriveTimes => ~c.called /\ c.drive_time = c.before_win

\* a lookup cost(b, a) with b > a of a pair whose cost is already known
C4_Witness ==
    /\ last_call # <<>>
    /\ last_call[1].before_win \in DriveTimes
    /\ last_call[1].zip1 > last_call[1].zip2

\* C5 (as claimed): once a lookup of an unordered pair has succeeded in the
\* run, every later lookup of that pair, in the same or a later window,
\* makes no oracle call and returns the same value.
C5_CacheLivesForTheRun ==
    \A c \in Range(last_call) :
        c.before_run \in DriveTimes => ~c.called /\ c.drive_time = c.before_run


\* C6 (as claimed): a failed oracle call, whatever the failure, leaves the
\* run going.
C6_OracleFailureNeverAborts ==
    \A c \in Range(last_call) :
        c.called /\ c.drive_time = None => pc # "aborted"

\* ---- the accumulated result, read back ----------------------------------
\* the windows whose group is in all_results
ClosedWindows ==
    {all_results[k].window : k \in {m \in DOMAIN all_results :
                                        all_results[m].kind = "title"}}

\* the window under whose title row position k stands
RowWindow(k) ==
    LET titles == {m \in 1..k : all_results[m].kind = "title"}
        t == CHOOSE m \in titles : \A n \in titles : n <= m
    IN all_results[t].window

\* the positions of the result rows of window w
RowsOfWindow(w) ==
    {k \in DOMAIN all_results : all_results[k].kind = "row" /\ RowWindow(k) = w}

\* the appointments that fall in window w
AppointmentsOfWindow(w) ==
    {k \in DOMAIN appointments :
        InWindow(appointments[k], time_windows[w].start, time_windows[w].end)}

\* the window whose group was appended last
LastClosed ==
    CHOOSE w \in ClosedWindows : \A v \in ClosedWindows : v <= w

\* C7 (as claimed): every appointment of a window has a record in the
\* window's result group, with or without a representative.
C7_EveryAppointmentHasARecord ==
    \A w \in ClosedWindows :
        \A k \in AppointmentsOfWindow(w) :
            \E r \in RowsOfWindow(w) :
                all_results[r].custnumber = appointments[k].custnumber

\* C7 (amended): the result group of a window holds one record for each
\* appointment of the window that ended with a final Assignment, with its
\* representative and drive time, and no record for any other appointment.
C7_RecordsAreTheAssignments ==
    /\ \A w \in ClosedWindows :
          /\ \A r \in RowsOfWindow(w) :
                /\ \E k \in AppointmentsOfWindow(w) :
                      all_results[r].custnumber = appointments[k].custnumber
                /\ Truthy(all_results[r].rep)
                /\ all_results[r].drive_time # None
                /\ all_results[r].drive_time < Inf
          /\ \A r1, r2 \in RowsOfWindow(w) :
                r1 # r2 => all_results[r1].custnumber # all_results[r2].custnumber
    /\ (pc \in {"start", "done"} /\ ClosedWindows # {}) =>
          /\ Cardinality(RowsOfWindow(LastClosed)) = Len(assignments)
          /\ \A a \in DOMAIN assignments :
                \E r \in RowsOfWindow(LastClosed) :
                    /\ all_results[r].custnumber = assignments[a].appointment.custnumber
                    /\ all_results[r].rep = assignments[a].assigned_to
                    /\ all_results[r].drive_time = assignments[a].drive_time

\* window 1 is closed: one of its appointments has a record, another ended
\* without a representative and has none
C7_Witness ==
    /\ pc = "start"
    /\ window_number = 2
    /\ RowsOfWindow(1) # {}
    /\ \E k \in AppointmentsOfWindow(1) :
          \A r \in RowsOfWindow(1) :
              all_results[r].custnumber # appointments[k].custnumber

\* C8 (as claimed): in the first pass the chosen rep's cost is at most the
\* cost of every eligible rep with a known cost, and an appointment is left
\* without a candidate only if no eligible rep returned a known cost.
C8_GreedyMinimality ==
    \A m \in Range(last_match) :
        m.pass = "pass1" =>
            LET known == {k \in DOMAIN m.scan :
                             m.scan[k].looked_up /\ m.scan[k].drive_time # None}
            IN /\ m.assigned =>
                     /\ \A k \in known : m.min_drive_time <= m.scan[k].drive_time
                     /\ \E k \in known : /\ m.scan[k].rep = m.closest_rep
                                         /\ m.scan[k].drive_time = m.min_drive_time
               /\ ~m.assigned => known = {}

\* the reps with a record in the group of the window before the current one
AssignedInPreviousWindow ==
    {all_results[r].rep : r \in RowsOfWindow(window_number - 1)}

\* C9: every cost lookup of window k+1 for a rep that was assigned in
\* window k uses the location that window k's update, or a roster edit
\* after it, left for that rep.
C9_UsesLocationLeftByPreviousWindow ==
    \A c \in Range(last_call) :
        (c.window >= 2 /\ c.rep \in AssignedInPreviousWindow) =>
            c.zip2 = left_loc[c.rep]

\* a lookup in window 2 or 3 for a rep that was assigned in the window
\* before, made from the location of that appointment
C9_Witness ==
    /\ last_call # <<>>
    /\ last_call[1].window >= 2
    /\ last_call[1].rep \in AssignedInPreviousWindow
    /\ \E r \in RowsOfWindow(window_number - 1) :
          /\ all_results[r].rep = last_call[1].rep
          /\ \E k \in DOMAIN appointments :
                /\ appointments[k].custnumber = all_results[r].custnumber
                /\ appointments[k].Zip = last_call[1].zip2

\* C10: the windows are pairwise disjoint and no appointment has a record
\* in more than one place of the accumulated result.
C10_NoAppointmentMatchedTwice ==
    /\ \A a, b \in DOMAIN time_windows :
          a < b => time_windows[a].end < time_windows[b].start
    /\ \A r1, r2 \in DOMAIN all_results :
          (/\ r1 # r2
           /\ all_results[r1].kind = "row"
           /\ all_results[r2].kind = "row")
              => all_results[r1].custnumber # all_results[r2].custnumber

\* the run is over with records in the groups of two different windows
C10_Witness ==
    /\ pc = "done"
    /\ RowsOfWindow(1) # {}
    /\ RowsOfWindow(2) # {} \/ RowsOfWindow(3) # {}

\* ---- termination --------------------------------------------------------
\* the windows whose title row is in all_results, in the order appended
ProcessedWindows ==
    LET titles == SelectSeq(all_results, LAMBDA r : r.kind = "title")
    IN [k \in DOMAIN titles |-> titles[k].window]

WindowsOf(k) ==
    {w \in DOMAIN time_windows :
        InWindow(appointments[k], time_windows[w].start, time_windows[w].end)}

\* C12 (as claimed): when the run is over, every appointment of the input
\* fell inside exactly one of the three windows, so it was in the filtered
\* list of exactly one matching.
C12_EveryAppointmentInOneWindow ==
    pc = "done" => \A k \in DOMAIN appointments : Cardinality(WindowsOf(k)) = 1

\* ---- failed lookups -----------------------------------------------------
\* C13: a lookup that comes back unknown leaves the cache as it was, with
\* no entry for the pair; the next lookup of that pair, in either order,
\* calls the distance matrix again, and a known answer is then stored under
\* the pair and returned.
C13_FailedLookupNotCached ==
    [][\A c \in Range(last_call') :
          LET cache_key == CacheKey(c.zip1, c.zip2)
          IN /\ (c.called /\ c.drive_time = None) =>
                   /\ drive_time_cache' = drive_time_cache
                   /\ cache_key \notin DOMAIN drive_time_cache'
             /\ c.before_win = None =>
                   /\ c.called
                   /\ cache_key \notin DOMAIN drive_time_cache
                   /\ c.drive_time # None =>
                         /\ cache_key \in DOMAIN drive_time_cache'
                         /\ drive_time_cache'[cache_key] = c.drive_time]_vars

\* a pair whose lookup failed has just been looked up again, the other way
\* round, and this time the distance matrix answered
C13_Witness ==
    /\ last_call # <<>>
    /\ last_call[1].before_win = None
    /\ last_call[1].called
    /\ last_call[1].drive_time \in DriveTimes
    /\ last_call[1].zip1 > last_call[1].zip2
    /\ drive_time_cache[CacheKey(last_call[1].zip1, last_call[1].zip2)]
           = last_call[1].drive_time

\* ---- the double-booking adjustment ---------------------------------------
\* the candidate a double-booked rep keeps: of minimum drive time, and the
\* earliest in the list among those
KeptOf(assigns, name) ==
    LET mine == AssignmentsOf(assigns, name)
    IN CHOOSE k \in mine :
          \A m \in mine :
              \/ assigns[k].drive_time < assigns[m].drive_time
              \/ assigns[k].drive_time = assigns[m].drive_time /\ k <= m

\* C14: Step 2 leaves every rep that holds more than one first-pass
\* candidate with exactly one of them, one of minimum drive time and among
\* those the earliest in the list; each of its other candidates leaves the
\* Assignment list and its appointment goes to the second pass.
C14_ResolverKeepsCheapestFirst ==
    [][(pc = "pass1" /\ pc' = "pass2") =>
        \A name \in RepNames(sales_reps) :
            LET mine == AssignmentsOf(appointment_assignments, name)
                kept == KeptOf(appointment_assignments, name)
            IN Cardinality(mine) > 1 =>
                 /\ Cardinality(AssignmentsOf(appointment_assignments', name)) = 1
                 /\ \E k \in AssignmentsOf(appointment_assignments', name) :
                        appointment_assignments'[k] = appointment_assignments[kept]
                 /\ \A m \in mine \ {kept} :
                        /\ appointment_assignments[m].appointment
                               \in Range(unassigned_appointments')
                        /\ appointment_assignments[m]
                               \notin Range(appointment_assignments')]_vars

\* Step 2 has just run on a rep with three candidates: the kept one is not
\* the first of the list, and two appointments were displaced
C14_Witness ==
    /\ pc = "pass2"
    /\ i = 1
    /\ j = 1
    /\ Len(unassigned_appointments) = 2
    /\ Len(appointment_assignments) = 1
    /\ appointment_assignments[1].appointment.custnumber # 1

\* ---- the second pass ------------------------------------------------------
\* C15: in the second pass a rep is looked up, and an appointment is given
\* to a rep, only if that rep holds nothing in this window: no first-pass
\* candidate (kept or displaced) and no earlier second-pass assignment.
C15_SecondPassOnlyIdleReps ==
    [][(pc = "pass2" /\ pc' # "update") =>
        /\ \A c \in Range(last_call') :
              /\ AssignmentsOf(appointment_assignments, c.rep) = {}
              /\ rep_appointments[c.rep] = <<>>
        /\ appointment_assignments' # appointment_assignments =>
              LET new == appointment_assignments'[Len(appointment_assignments')]
              IN /\ appointment_assignments' = Append(appointment_assignments, new)
                 /\ AssignmentsOf(appointment_assignments, new.assigned_to) = {}
                 /\ rep_appointments[new.assigned_to] = <<>>]_vars

\* the second pass is over: of two displaced appointments the first went
\* to the idle rep and the second, which that rep could also serve, found
\* nobody left
C15_Witness ==
    /\ pc = "pass2"
    /\ Len(unassigned_appointments) = 2
    /\ i > Len(unassigned_appointments)
    /\ Len(appointment_assignments) = 2
    /\ appointment_assignments[2].appointment = unassigned_appointments[1]
    /\ \A k \in DOMAIN sales_reps :
          unassigned_appointments[2].productid \in sales_reps[k].scope

\* ---- the order of the steps ----------------------------------------------
\* the steps of a window in the order of run_workflow and main_workflow:
\* partition ("start"), first pass, Step 2, second pass, location update,
\* roster edit, result append
StepOrder ==
    { <<"prepare", "start">>,
      <<"start", "pass1">>, <<"pass1", "pass1">>, <<"pass1", "pass2">>,
      <<"pass2", "pass2">>, <<"pass2", "update">>, <<"update", "modify">>,
      <<"update", "collect">>, <<"modify", "modify">>, <<"modify", "collect">>,
      <<"collect", "start">>, <<"collect", "done">>,
      <<"pass1", "aborted">>, <<"pass2", "aborted">> }

\* C16: every step follows the order partition, first pass, conflict
\* resolution, second pass, location update, optional roster edit, result
\* append; the window number grows by one, and only when a window's group
\* has been appended; the matching of window k+1 starts with the groups of
\* windows 1..k appended, so after window k's update and edit.
C16_StepsInOrder ==
    [][/\ <<pc, pc'>> \in StepOrder
       /\ window_number' =
             IF pc = "collect" /\ pc' = "start"
             THEN window_number + 1 ELSE window_number
       /\ pc' = "pass1" =>
             ProcessedWindows' = [k \in 1..(window_number - 1) |-> k]
       /\ all_results' # all_results => pc = "collect"]_vars

\* the matching of window 2 is under way after window 1's update and a
\* roster edit
C16_Witness ==
    /\ pc = "pass2"
    /\ window_number = 2
    /\ edits = 1
    /\ ProcessedWindows = <<1>>
    /\ appointment_assignments # <<>>

\* ---- the roster editor ----------------------------------------------------
\* who is on the roster, in order, and with which scope
RosterShape(roster) ==
    [k \in DOMAIN roster |-> [name |-> roster[k].name, scope |-> roster[k].scope]]

\* C17: modify_sales_reps runs only after the update of window 1 or of
\* window 2, never after the last window, and ends before the results are
\* appended and the next matching starts; the reps on the roster and their
\* scopes change in no other step, so not while a window is matched or its
\* double bookings are adjusted.
C17_EditorOnlyBetweenWindows ==
    [][/\ pc' = "modify" =>
             /\ pc \in {"update", "modify"}
             /\ window_number' < Len(time_windows)
       /\ pc = "modify" => pc' \in {"modify", "collect"}
       /\ RosterShape(sales_reps') # RosterShape(sales_reps) =>
             pc = "modify" /\ pc' = "modify"]_vars

\* the operator has just changed the roster after window 2
C17_Witness ==
    /\ pc = "modify"
    /\ window_number = 2
    /\ edits = 1
    /\ RosterShape(sales_reps) # RosterShape(pre_roster)

\* ---- ties -----------------------------------------------------------------
\* the positions of a rep loop's results that came back with a known drive
\* time, and the first of them that has the smallest one
KnownIn(results) ==
    {k \in DOMAIN results : results[k].looked_up /\ results[k].drive_time # None}

FirstCheapest(results) ==
    CHOOSE k \in KnownIn(results) :
        \A m \in KnownIn(results) :
            \/ results[k].drive_time < results[m].drive_time
            \/ results[k].drive_time = results[m].drive_time /\ k <= m

\* C18: in both passes the rep loop ends with closest_rep the first rep, in
\* roster order, among the looked-up reps with the smallest known drive
\* time, and an Assignment that is made names that rep with that time.
C18_TieGoesToFirstInRosterOrder ==
    \A m \in Range(last_match) :
        /\ KnownIn(m.scan) # {} =>
              /\ m.closest_rep = m.scan[FirstCheapest(m.scan)].rep
              /\ m.min_drive_time = m.scan[FirstCheapest(m.scan)].drive_time
        /\ m.assigned =>
              /\ KnownIn(m.scan) # {}
              /\ appointment_assignments[Len(appointment_assignments)].assigned_to
                     = m.scan[FirstCheapest(m.scan)].rep
        /\ \A k \in DOMAIN m.scan : m.scan[k].rep = sales_reps[k].name

\* the second pass has just given a displaced appointment to the first of
\* two idle reps that are equally far from it
C18_Witness ==
    /\ last_match # <<>>
    /\ last_match[1].pass = "pass2"
    /\ last_match[1].assigned
    /\ \E a, b \in KnownIn(last_match[1].scan) :
          /\ a < b
          /\ last_match[1].scan[a].drive_time = last_match[1].scan[b].drive_time
          /\ last_match[1].scan[a].drive_time = last_match[1].min_drive_time
          /\ last_match[1].scan[a].rep = last_match[1].closest_rep

\* ---- what is left over when a matching ends ------------------------------
\* the appointments of the current window without a final Assignment, and
\* the reps without one
LeftUnassigned ==
    {k \in DOMAIN filtered_appointments :
        \A a \in DOMAIN appointment_assignments :
            appointment_assignments[a].appointment # filtered_appointments[k]}

IdleReps ==
    {r \in DOMAIN sales_reps :
        AssignmentsOf(appointment_assignments, sales_reps[r].name) = {}}

\* C19: when both passes of a window are over, no lookup of the window
\* came back unknown and no rep has an empty name, every appointment of the
\* window without a final Assignment has no rep that may serve its product
\* and holds no final Assignment.
C19_NoIdleEligibleRepLeft ==
    (/\ pc = "pass2"
     /\ i > Len(unassigned_appointments)
     /\ ~oracle_failed
     /\ "" \notin RepNames(sales_reps)) =>
        \A k \in LeftUnassigned :
            \A r \in IdleReps :
                filtered_appointments[k].productid \notin sales_reps[r].scope

\* a matching without a failed lookup has ended: two appointments were
\* displaced and are left over, next to an idle rep that may not serve
\* their products
C19_Witness ==
    /\ pc = "pass2"
    /\ i > Len(unassigned_appointments)
    /\ ~oracle_failed
    /\ "" \notin RepNames(sales_reps)
    /\ Len(unassigned_appointments) = 2
    /\ Cardinality(LeftUnassigned) = 2
    /\ IdleReps # {}

\* ---- who writes the roster -----------------------------------------------
\* C20: partition, both passes, Step 2 and the result append leave the
\* roster as it is; update_sales_reps_zip runs once per window, right after
\* the second pass, keeps the reps and their scopes, and changes curr_zip
\* only for reps with an Assignment of the window.
C20_OnlyTheUpdaterMovesReps ==
    [][/\ pc \in {"start", "pass1", "pass2", "collect"} => sales_reps' = sales_reps
       /\ pc' = "update" => pc = "pass2"
       /\ pc = "update" =>
             /\ pc' # "update"
             /\ RosterShape(sales_reps') = RosterShape(sales_reps)
             /\ \A k \in DOMAIN sales_reps :
                   sales_reps'[k].curr_zip # sales_reps[k].curr_zip =>
                       AssignmentsOf(assignments, sales_reps[k].name) # {}]_vars

\* window 3, where no edit follows: the update has moved one rep and left
\* a rep without an Assignment where it was
C20_Witness ==
    /\ pc = "collect"
    /\ window_number = Len(time_windows)
    /\ RosterShape(sales_reps) = RosterShape(pre_roster)
    /\ \E k \in DOMAIN sales_reps :
          /\ sales_reps[k].curr_zip # pre_roster[k].curr_zip
          /\ AssignmentsOf(assignments, sales_reps[k].name) # {}
    /\ \E k \in DOMAIN sales_reps :
          /\ sales_reps[k] = pre_roster[k]
          /\ AssignmentsOf(assignments, sales_reps[k].name) = {}

\* ---- the recorded cost ----------------------------------------------------
\* the location a rep had when the current window's matching started
ZipAtMatching(name) ==
    pre_roster[RepIndex(pre_roster, name)].curr_zip

\* C21: when a window's matching ends, every final Assignment carries the
\* drive time the window's lookups gave for the appointment's ZIP and the
\* ZIP the rep had when the matching started; the update, the roster edit
\* and the result append leave the Assignments as they were.
C21_RecordedCostIsCostAtMatching ==
    [][/\ (pc' = "pass2" /\ i' > Len(unassigned_appointments')) =>
             \A a \in DOMAIN appointment_assignments' :
                 LET x == appointment_assignments'[a]
                     cache_key == CacheKey(x.appointment.Zip,
                                           ZipAtMatching(x.assigned_to))
                 IN /\ cache_key \in DOMAIN drive_time_cache'
                    /\ drive_time_cache'[cache_key] = x.drive_time
       /\ pc = "pass2" /\ pc' = "update" => assignments' = appointment_assignments
       /\ pc \in {"update", "modify", "collect"} => assignments' = assignments]_vars

\* a window's results are about to be appended: a rep was matched from one
\* minute away, has since been moved to the appointment, and the
\* Assignment still says one minute
C21_Witness ==
    /\ pc = "collect"
    /\ \E a \in DOMAIN assignments :
          /\ assignments[a].drive_time = MaxDriveTime
          /\ assignments[a].assigned_to \in RepNames(sales_reps)
          /\ ZipAtMatching(assignments[a].assigned_to)
                 # sales_reps[RepIndex(sales_reps, assignments[a].assigned_to)].curr_zip

\* ---- a window without a double booking -----------------------------------
NoDoubleBooking(assigns) ==
    \A a, b \in DOMAIN assigns :
        a # b => assigns[a].assigned_to # assigns[b].assigned_to

\* C22: when the first pass gave no rep more than one appointment, Step 2
\* leaves the list as it is (same Assignments, same order) and displaces
\* nothing; with nothing displaced the second pass makes no lookup and the
\* list is returned as it stands.
C22_NoConflictNoChange ==
    [][/\ (pc = "pass1" /\ pc' = "pass2"
           /\ NoDoubleBooking(appointment_assignments)) =>
             /\ appointment_assignments' = appointment_assignments
             /\ unassigned_appointments' = <<>>
       /\ (pc = "pass2" /\ unassigned_appointments = <<>>) =>
             /\ pc' = "update"
             /\ last_call' = <<>>
             /\ assignments' = appointment_assignments]_vars

\* Step 2 has just run on two candidates for two reps, the dearer one
\* first in the list: nothing was displaced and the order is kept
C22_Witness ==
    /\ pc = "pass2"
    /\ i = 1
    /\ unassigned_appointments = <<>>
    /\ Len(appointment_assignments) = 2
    /\ NoDoubleBooking(appointment_assignments)
    /\ appointment_assignments[1].drive_time > appointment_assignments[2].drive_time

\* ---- the partition ----------------------------------------------------------
\* where a record stands in a list
PositionsIn(list, x) ==
    {k \in DOMAIN list : list[k] = x}

\* C23: while a window is matched, the filtered list holds exactly the
\* appointments whose time is at or after the window's start and at or
\* before its end, each once, in the order of the input list.
C23_PartitionIsExact ==
    pc \in {"pass1", "pass2"} =>
        LET w == time_windows[window_number]
            f == filtered_appointments
        IN /\ \A k \in DOMAIN f :
                 /\ w.start <= f[k].apptdate
                 /\ f[k].apptdate <= w.end
                 /\ PositionsIn(appointments, f[k]) # {}
           /\ \A k \in DOMAIN appointments :
                 (w.start <= appointments[k].apptdate
                      /\ appointments[k].apptdate <= w.end) =>
                     Cardinality(PositionsIn(f, appointments[k])) = 1
           /\ \A a, b \in DOMAIN f :
                 a < b =>
                     \E x \in PositionsIn(appointments, f[a]),
                        y \in PositionsIn(appointments, f[b]) : x < y

\* window 1 is matched: an appointment exactly at its end is in the
\* filtered list, after the one at its start
C23_Witness ==
    /\ pc = "pass1"
    /\ window_number = 1
    /\ Len(filtered_appointments) = 2
    /\ filtered_appointments[1].apptdate = time_windows[1].start
    /\ filtered_appointments[2].apptdate = time_windows[1].end

\* ---- the roster a window is matched with ----------------------------------
\* the names a roster typed into the form can hold
InitialRosterNames ==
    {InitialNames[k] : k \in 1..MaxReps}

\* C24: while a window is matched, every rep looked up and every rep named
\* by an Assignment is on the roster the window started with and was not
\* removed by the operator (unless added again since).
C24_AssignedRepsAreOnTheRoster ==
    pc \in {"pass1", "pass2"} =>
        /\ \A c \in Range(last_call) :
              /\ c.rep \in RepNames(pre_roster)
              /\ left_loc[c.rep] # None
        /\ \A a \in DOMAIN appointment_assignments :
              /\ appointment_assignments[a].assigned_to \in RepNames(pre_roster)
              /\ left_loc[appointment_assignments[a].assigned_to] # None

\* the matching of a later window has given an appointment to a rep the
\* operator added after an earlier window
C24_Witness ==
    /\ pc = "pass2"
    /\ window_number >= 2
    /\ \E a \in DOMAIN appointment_assignments :
          appointment_assignments[a].assigned_to \notin InitialRosterNames

\* ---- the accumulated result -----------------------------------------------
\* C25: all_results grows only when a window is collected; what it held
\* stays as it was, and the part appended is the title row carrying the
\* window's number, one row per Assignment of that window in the order they
\* were returned, each for an appointment of that window, and a blank row;
\* the titles so far number the windows 1, 2, ... in order.
C25_GroupsInWindowOrder ==
    [][/\ pc # "collect" => all_results' = all_results
       /\ pc = "collect" =>
              LET n == Len(all_results)
                  m == Len(assignments)
              IN /\ Len(all_results') = n + m + 2
                 /\ SubSeq(all_results', 1, n) = all_results
                 /\ all_results'[n + 1].kind = "title"
                 /\ all_results'[n + 1].window = window_number
                 /\ \A k \in 1..m :
                       /\ all_results'[n + 1 + k].kind = "row"
                       /\ all_results'[n + 1 + k].custnumber =
                              assignments[k].appointment.custnumber
                       /\ all_results'[n + 1 + k].rep = assignments[k].assigned_to
                       /\ \E f \in DOMAIN filtered_appointments :
                              filtered_appointments[f].custnumber =
                                  all_results'[n + 1 + k].custnumber
                 /\ all_results'[n + m + 2].kind = "blank"
                 /\ ProcessedWindows' = [k \in 1..window_number |-> k]]_vars

\* the run is over and both the group of window 1 and the group of
\* window 2 hold a row
C25_Witness ==
    /\ pc = "done"
    /\ \E p, q \in DOMAIN all_results :
          /\ p < q
          /\ all_results[p].kind = "row"
          /\ all_results[q].kind = "title"
          /\ all_results[q].window = 2
          /\ all_results[q + 1].kind = "row"

\* ---- unknown drive times ---------------------------------------------------
\* C26 as stated: no Assignment carries an unknown cost, and no rep whose
\* lookup for an appointment came back unknown in this window's matching
\* holds that appointment, whichever pass made the Assignment.
C26_NeverAssignedAfterUnknown ==
    pc \in {"pass1", "pass2"} =>
        \A a \in DOMAIN appointment_assignments :
            /\ appointment_assignments[a].drive_time \in DriveTimes
            /\ <<appointment_assignments[a].appointment.custnumber,
                 appointment_assignments[a].assigned_to>> \notin unknown_for

\* C26, amended: every Assignment carries a known numeric cost, and each
\* pass gives an appointment only to a rep whose lookup in that pass's own
\* rep loop returned a number, never to one whose lookup in that loop came
\* back unknown.
C26_AssignedOnlyFromKnownCost ==
    [][/\ \A a \in DOMAIN appointment_assignments' :
             appointment_assignments'[a].drive_time \in DriveTimes
       /\ \A m \in Range(last_match') :
             m.assigned =>
                 /\ m.min_drive_time \in DriveTimes
                 /\ \E k \in DOMAIN m.scan :
                       /\ m.scan[k].rep = m.closest_rep
                       /\ m.scan[k].looked_up
                       /\ m.scan[k].drive_time = m.min_drive_time
                 /\ \A k \in DOMAIN m.scan :
                       (m.scan[k].looked_up /\ m.scan[k].drive_time = None)
                           => m.scan[k].rep # m.closest_rep]_vars

\* an appointment has just been given to a rep although the lookup for
\* another rep in the same loop came back unknown
C26_Witness ==
    \E m \in Range(last_match) :
        /\ m.assigned
        /\ \E k \in DOMAIN m.scan :
              m.scan[k].looked_up /\ m.scan[k].drive_time = None

\* ---- the roster editor's loop ----------------------------------------------
\* C27 as stated: once the operator has selected a valid action (add or
\* remove), modify_sales_reps returns the updated roster: the step that
\* applies the action ends the editing.
C27_ReturnsAfterValidAction ==
    [][(pc = "modify" /\ edits' = edits + 1) => pc' # "modify"]_vars

\* ---- the appointment records ----------------------------------------------
\* the instant an apptdate stands for: a datetime stands for itself, a text
\* for the time the loader wrote it from
Instant(apptdate) ==
    IF IsStr(apptdate)
    THEN CHOOSE t \in ApptTimes : Strftime(t) = apptdate
    ELSE apptdate

\* C28 as stated: no step of the run changes an appointment record.
C28_AppointmentsNeverMutated ==
    [][appointments' = appointments]_vars

\* C28, amended: no step changes the number or order of the appointment
\* records, nor any record's customer number, ZIP or product; the only
\* change ever made to a record is the one of main_workflow's first loop,
\* which replaces the timestamp text by the datetime of the same instant;
\* from then on no record changes.
C28_OnlyTheDateTextIsParsed ==
    [][/\ DOMAIN appointments' = DOMAIN appointments
       /\ \A k \in DOMAIN appointments :
             /\ appointments'[k].custnumber = appointments[k].custnumber
             /\ appointments'[k].Zip = appointments[k].Zip
             /\ appointments'[k].productid = appointments[k].productid
             /\ Instant(appointments'[k].apptdate) = Instant(appointments[k].apptdate)
       /\ pc = "prepare" =>
             \A k \in DOMAIN appointments :
                 /\ IsStr(appointments[k].apptdate)
                 /\ ~IsStr(appointments'[k].apptdate)
       /\ pc # "prepare" => appointments' = appointments]_vars

\* the run is over: three windows were matched with the records parsed
\* from the text, one of them with seconds in its time, and an appointment
\* got a rep
C28_Witness ==
    /\ pc = "done"
    /\ \E k \in DOMAIN appointments :
          /\ ~IsStr(appointments[k].apptdate)
          /\ appointments[k].apptdate % SecondsPerMinute # 0
    /\ \E q \in DOMAIN all_results : all_results[q].kind = "row"

====
